---- MODULE Spec2Model ----
(***************************************************************************)
(* AudioSourceSDFAT (src/src/AudioTools/Disk/AudioSourceSDFAT.h): the      *)
(* navigable SD-card audio source.  One session object, a single caller,   *)
(* every public method one atomic step.                                    *)
(*                                                                         *)
(* The SdFat volume (sd) and file (file) are external; they are modelled   *)
(* at their interface: a volume is mounted or not, a file object is closed *)
(* or open on one path.  The enumerator idx (SDDirect) is part of the      *)
(* repository but not part of the sources at hand; it is modelled from     *)
(* section 4.1 of the specification.                                       *)
(*                                                                         *)
(* Paths of the model are shorter than MAX_FILE_LEN, so strncpy copies     *)
(* them whole, terminator included.                                        *)
(***************************************************************************)
EXTENDS Integers, Sequences, FiniteSets, TLC

\* ------------------------------------------------------------------ bounds

\* Largest position the caller reaches through small indexes and offsets
\* (the extreme int values are inputs on top of it).
MaxPos == 3

\* ------------------------------------------------------- program constants

\* The largest int; int and size_t are 32 bits wide on the ESP32.
INT_MAX == 2147483647

INT_MIN == -INT_MAX - 1

\* #ifdef ESP32 (end): the build this port targets.
ESP32 == TRUE

\* nullptr
NULL == "nullptr"

\* A closed AudioFile.
Closed == "closed"

\* The content of a char array nobody has written yet.
Garbage == "<indeterminate>"

\* ------------------------------------------------------------ the SD card

\* Directory entries in the order the driver enumerates them, depth first
\* from "/".  name is the bare file name, one character per element.
Entries ==
  << [path |-> "/a.mp3",       dir |-> "/",      isDir |-> FALSE, readable |-> TRUE,
      name |-> <<"a", ".", "m", "p", "3">>],
     [path |-> "/b.txt",       dir |-> "/",      isDir |-> FALSE, readable |-> TRUE,
      name |-> <<"b", ".", "t", "x", "t">>],
     [path |-> "/music",       dir |-> "/",      isDir |-> TRUE,  readable |-> TRUE,
      name |-> <<"m", "u", "s", "i", "c">>],
     [path |-> "/music/c.MP3", dir |-> "/music", isDir |-> FALSE, readable |-> TRUE,
      name |-> <<"c", ".", "M", "P", "3">>],
     [path |-> "/music/d.mp3", dir |-> "/music", isDir |-> FALSE, readable |-> FALSE,
      name |-> <<"d", ".", "m", "p", "3">>] >>

\* The directories a directory lies under (itself included).
Under(dir) == IF dir = "/" THEN {"/"} ELSE {"/", dir}

Roots == {"/", "/music"}

\* Required extensions and name patterns, one character per element.
ExtMp3 == <<".", "m", "p", "3">>

PatAll == <<"*">>

PatC == <<"c", "*">>

Patterns == {PatAll, PatC}

Extensions == {ExtMp3}

\* Paths a caller hands to selectStream(const char*).
CallerPaths == {NULL, "", "/a.mp3", "/nope.mp3"}

\* Indexes a caller hands to selectStream(int).
Indexes == {INT_MIN, -1, INT_MAX} \cup (0 .. MaxPos)

\* Offsets a caller hands to nextStream(int).
Offsets == {INT_MIN, -2, -1, 0, 1, 2, INT_MAX}

\* Positions the model follows.
Positions == (0 .. MaxPos) \cup {INT_MAX}

\* ------------------------------------------- the enumerator idx (SDDirect)

Lower(c) == CASE c = "M" -> "m" [] c = "P" -> "p" [] OTHER -> c

LowerSeq(w) == [i \in 1 .. Len(w) |-> Lower(w[i])]

\* Index of the last '.' of a name, 0 if it has none.
LastDot(name) ==
  LET dots == {i \in 1 .. Len(name) : name[i] = "."}
  IN  IF dots = {} THEN 0 ELSE CHOOSE i \in dots : \A j \in dots : j <= i

\* The suffix after the last '.', empty if the name has no '.'.
Suffix(name) ==
  IF LastDot(name) = 0 THEN <<>> ELSE SubSeq(name, LastDot(name) + 1, Len(name))

\* The required extension, with or without its leading '.'.
BareExt(ext) == IF ext # <<>> /\ Head(ext) = "." THEN Tail(ext) ELSE ext

ExtMatches(name, ext) == LowerSeq(Suffix(name)) = LowerSeq(BareExt(ext))

\* Glob match of a bare file name: '*' matches any run of characters; the
\* empty pattern matches everything.
RECURSIVE GlobFrom(_, _)
GlobFrom(pat, name) ==
  IF pat = <<>> THEN name = <<>>
  ELSE IF Head(pat) = "*"
       THEN \/ GlobFrom(Tail(pat), name)
            \/ name # <<>> /\ GlobFrom(pat, Tail(name))
       ELSE name # <<>> /\ Head(name) = Head(pat) /\ GlobFrom(Tail(pat), Tail(name))

Glob(pat, name) == pat = <<>> \/ GlobFrom(pat, name)

\* The matching files under a root, in traversal order.
Matching(root, ext, pat) ==
  SelectSeq(Entries, LAMBDA e : /\ ~e.isDir
                                /\ root \in Under(e.dir)
                                /\ ExtMatches(e.name, ext)
                                /\ Glob(pat, e.name))

\* One traversal per filter the model uses.
Traversal ==
  [root \in Roots, ext \in Extensions, pat \in Patterns |-> Matching(root, ext, pat)]

\* The enumerator before idx.begin.
NoIndex == [begun |-> FALSE, start_dir |-> NULL, ext |-> <<>>, pattern |-> <<>>]

\* idx.begin(startDir, extension, file_name_pattern)
IdxBegin(startDir, ext, pat) ==
  [begun |-> TRUE, start_dir |-> startDir, ext |-> ext, pattern |-> pat]

\* The files the enumerator walks over: none before begin, none on a volume
\* that is not mounted.
IdxFiles(ix, mounted) ==
  IF ix.begun /\ mounted THEN Traversal[ix.start_dir, ix.ext, ix.pattern] ELSE <<>>

\* idx.size(): count()
IdxSize(ix, mounted) == Len(IdxFiles(ix, mounted))

\* idx[pos]: pathAt(pos), NULL for NotFound.
IdxAt(ix, mounted, pos) ==
  IF pos >= 0 /\ pos < IdxSize(ix, mounted)
  THEN IdxFiles(ix, mounted)[pos + 1].path
  ELSE NULL

\* ------------------------------------------------------------------ state

VARIABLES
  p_cfg,              \* "cfg" or NULL
  owns_cfg,
  is_sd_setup,
  is_close_sd,
  start_path,
  exension,
  file_name_pattern,
  idx,                \* the enumerator's configuration
  idx_pos,
  file,               \* Closed, or the path the file object is open on
  file_name,
  sd,                 \* TRUE iff the volume is mounted
  life,               \* "live", "crashed" (null dereference), "destroyed"
  last,               \* what the last call did and returned
  lastOk              \* path of the last open that succeeded, "" if none

vars == << p_cfg, owns_cfg, is_sd_setup, is_close_sd, start_path, exension,
           file_name_pattern, idx, idx_pos, file, file_name, sd, life, last,
           lastOk >>

config == << p_cfg, owns_cfg, is_close_sd, exension >>

\* The record of one call.
\*   op, arg          the method and its argument (begin, end and the
\*                    destructor: is_sd_setup when called)
\*   ret              selectStream/nextStream: NULL or "&file"; begin: "done",
\*                    "failed" (early return) or "crashed"; isAutoNext: the
\*                    flag; else "void"
\*   hadOpen          the file object was open when the method was called
\*   closes           file.close() was called
\*   opens            number of file.open() calls
\*   openWhileOpen    a file.open() call found the file object still open
\*   opened           a file.open() call succeeded
\*   mounts           sd.begin() was called
\*   unmounts         sd.end() was called
Call(op, arg, ret, mounts, unmounts) ==
  [op |-> op, arg |-> arg, ret |-> ret, hadOpen |-> file # Closed,
   closes |-> FALSE, opens |-> 0, openWhileOpen |-> FALSE, opened |-> FALSE,
   mounts |-> mounts, unmounts |-> unmounts]

\* ------------------------------------------------- the SdFat file object

\* file.close() left out.
FileCloseSkipped(f) == f

\* file.close()
FileClose(f) == Closed

\* Whether the volume can open the path for reading.
CanOpen(path, mounted) ==
  /\ mounted
  /\ \E i \in 1 .. Len(Entries) :
       Entries[i].path = path /\ ~Entries[i].isDir /\ Entries[i].readable

\* file.open(path, O_RDONLY): a file object that is still open refuses.
FileOpen(f, path, mounted) ==
  IF f # Closed THEN [ok |-> FALSE, file |-> f, wasOpen |-> TRUE]
  ELSE IF CanOpen(path, mounted)
       THEN [ok |-> TRUE, file |-> path, wasOpen |-> FALSE]
       ELSE [ok |-> FALSE, file |-> Closed, wasOpen |-> FALSE]

\* strncpy(file_name, path, MAX_FILE_LEN)
Strncpy(dst, path) == path

\* ------------------------------------------------------------ the methods

\* selectStream(const char *path) testing for the null path before it closes.
SelectPathNullFirst(f, fname, mounted, path) ==
  IF path = NULL
  THEN [file |-> f, file_name |-> fname, ret |-> NULL, closes |-> FALSE,
        opens |-> 0, openWhileOpen |-> FALSE, opened |-> FALSE]
  ELSE LET o == FileOpen(Closed, path, mounted)
       IN  [file |-> o.file, file_name |-> Strncpy(fname, path),
            ret |-> "&file", closes |-> TRUE, opens |-> 1,
            openWhileOpen |-> o.wasOpen, opened |-> o.ok]

\* selectStream(const char *path): the file object, the recorded name and
\* the result after the call.
SelectPath(f, fname, mounted, path) ==
  LET f1 == FileClose(f)
  IN  IF path = NULL
      THEN [file |-> f1, file_name |-> fname, ret |-> NULL, closes |-> TRUE,
            opens |-> 0, openWhileOpen |-> FALSE, opened |-> FALSE]
      ELSE LET o == FileOpen(f1, path, mounted)
           IN  [file |-> o.file, file_name |-> Strncpy(fname, path),
                ret |-> "&file", closes |-> TRUE, opens |-> 1,
                openWhileOpen |-> o.wasOpen, opened |-> o.ok]

\* selectStream(int index) without the guard against negative indexes.
AdoptIndexUnguarded(pos, index) == index

\* selectStream(int index) with the guard off by one.
AdoptIndexFromMinusOne(pos, index) == IF index >= -1 THEN index ELSE pos

\* selectStream(int index): the position after "if (index > -1)".
AdoptIndex(pos, index) == IF index > -1 THEN index ELSE pos

\* selectStream(int index)
SelectIndex(pos, ix, f, fname, mounted, index) ==
  LET p == AdoptIndex(pos, index)
  IN  [idx_pos |-> p] @@ SelectPath(f, fname, mounted, IdxAt(ix, mounted, p))

\* nextStream stopping at the first file when the offset leads before it.
NextIndexClamped(pos, offset) ==
  IF offset > INT_MAX - pos
  THEN (pos - INT_MAX - 1) + (offset - INT_MAX - 1)
  ELSE IF pos + offset < 0 THEN 0 ELSE pos + offset

\* nextStream: idx_pos + offset, computed in size_t (modulo 2^32) and
\* converted to the int parameter of selectStream(int).  pos is in 0..INT_MAX.
NextIndex(pos, offset) ==
  IF offset > INT_MAX - pos
  THEN (pos - INT_MAX - 1) + (offset - INT_MAX - 1)
  ELSE pos + offset

\* nextStream(int offset)
NextStream(pos, ix, f, fname, mounted, offset) ==
  SelectIndex(pos, ix, f, fname, mounted, NextIndex(pos, offset))

\* end() unmounting whoever mounted the volume.
EndUnmountsAlways(setup, close_sd) == setup /\ ESP32

\* end() without the test of is_sd_setup.
EndUnmountsUnguarded(setup, close_sd) == ESP32 /\ close_sd

\* end(): whether sd.end() is called.
EndUnmounts(setup, close_sd) == setup /\ ESP32 /\ close_sd

\* index()
index == idx_pos

\* toStr()
toStr == file_name

\* isAutoNext() answering from the mount state.
isAutoNextWhenMounted == is_sd_setup

\* isAutoNext()
isAutoNext == TRUE

\* size()
size == IdxSize(idx, sd)

\* ------------------------------------------------------------------- Init

\* AudioSourceSDFAT(startFilePath, ext, chipSelect, speedMHz, spi_mode, setupIndex)
CtorDefault(root) ==
  /\ p_cfg = "cfg" /\ owns_cfg = TRUE
  /\ start_path = root /\ exension = ExtMp3
  /\ is_sd_setup = FALSE /\ is_close_sd = TRUE /\ sd = FALSE
  /\ last = Call("ctor", "default", "void", FALSE, FALSE)

\* AudioSourceSDFAT(startFilePath, ext, SdSpiConfig &config, setupIndex)
CtorConfig(root) ==
  /\ p_cfg = "cfg" /\ owns_cfg = FALSE
  /\ start_path = root /\ exension = ExtMp3
  /\ is_sd_setup = FALSE /\ is_close_sd = TRUE /\ sd = FALSE
  /\ last = Call("ctor", "config", "void", FALSE, FALSE)

\* AudioSourceSDFAT(AudioFs fs, startFilePath, ext, setupIndex): the caller
\* hands over a mounted volume.
CtorFs(root) ==
  /\ p_cfg = NULL /\ owns_cfg = FALSE
  /\ start_path = root /\ exension = ExtMp3
  /\ is_sd_setup = TRUE /\ is_close_sd = FALSE /\ sd = TRUE
  /\ last = Call("ctor", "fs", "void", FALSE, FALSE)

\* The members' default initialisers; file_name has none.
Init ==
  /\ file_name_pattern = PatAll
  /\ idx = NoIndex
  /\ idx_pos = 0
  /\ file = Closed
  /\ file_name \in {"", Garbage}
  /\ life = "live"
  /\ lastOk = ""
  /\ \E root \in Roots : CtorDefault(root) \/ CtorConfig(root) \/ CtorFs(root)

\* ---------------------------------------------------------------- actions

\* begin() with the storage already set up, or sd.begin() succeeding.
BeginDone(mounts) ==
  /\ is_sd_setup' = TRUE
  /\ sd' = IF mounts THEN TRUE ELSE sd
  /\ idx' = IdxBegin(start_path, exension, file_name_pattern)
  /\ idx_pos' = 0
  /\ last' = Call("begin", is_sd_setup, "done", mounts, FALSE)
  /\ UNCHANGED << config, start_path, file_name_pattern, file, file_name, life,
                  lastOk >>

\* begin() with sd.begin() failing and the return missing.
BeginFailedNoReturn ==
  /\ is_sd_setup' = TRUE
  /\ sd' = FALSE
  /\ idx' = IdxBegin(start_path, exension, file_name_pattern)
  /\ idx_pos' = 0
  /\ last' = Call("begin", is_sd_setup, "failed", TRUE, FALSE)
  /\ UNCHANGED << config, start_path, file_name_pattern, file, file_name, life,
                  lastOk >>

\* begin() with sd.begin() failing: the early return.
BeginFailed ==
  /\ sd' = FALSE
  /\ last' = Call("begin", is_sd_setup, "failed", TRUE, FALSE)
  /\ UNCHANGED << config, is_sd_setup, start_path, file_name_pattern, idx,
                  idx_pos, file, file_name, life, lastOk >>

\* begin() dereferencing a null p_cfg and trapping.
BeginCrashed ==
  /\ life' = "crashed"
  /\ last' = Call("begin", is_sd_setup, "crashed", FALSE, FALSE)
  /\ UNCHANGED << config, is_sd_setup, start_path, file_name_pattern, idx,
                  idx_pos, file, file_name, sd, lastOk >>

\* begin(): *p_cfg with p_cfg null is undefined; the call traps, or goes on
\* with whatever sd.begin() makes of the bytes it reads.
Begin ==
  /\ life = "live"
  /\ IF is_sd_setup
     THEN BeginDone(FALSE)
     ELSE \/ BeginDone(TRUE)
          \/ BeginFailed
          \/ p_cfg = NULL /\ BeginCrashed

\* The body of end().
EndBody(op) ==
  /\ is_sd_setup' = FALSE
  /\ sd' = IF EndUnmounts(is_sd_setup, is_close_sd) THEN FALSE ELSE sd
  /\ last' = Call(op, is_sd_setup, "void", FALSE,
                  EndUnmounts(is_sd_setup, is_close_sd))
  /\ UNCHANGED << owns_cfg, is_close_sd, exension, start_path,
                  file_name_pattern, idx, idx_pos, file, file_name, lastOk >>

\* end()
End ==
  /\ life = "live"
  /\ EndBody("end")
  /\ UNCHANGED << p_cfg, life >>

\* ~AudioSourceSDFAT()
Destroy ==
  /\ life = "live"
  /\ EndBody("destroy")
  /\ p_cfg' = IF owns_cfg THEN "deleted" ELSE p_cfg
  /\ life' = "destroyed"

\* The state a selection leaves behind.
Selected(op, arg, r) ==
  /\ idx_pos' = r.idx_pos
  /\ file' = r.file
  /\ file_name' = r.file_name
  /\ lastOk' = IF r.opened THEN r.file ELSE lastOk
  /\ last' = [Call(op, arg, r.ret, FALSE, FALSE) EXCEPT
                  !.closes = r.closes, !.opens = r.opens,
                  !.openWhileOpen = r.openWhileOpen, !.opened = r.opened]
  /\ UNCHANGED << config, is_sd_setup, start_path, file_name_pattern, idx, sd, life >>

\* nextStream(offset)
Next_Stream ==
  /\ life = "live"
  /\ \E offset \in Offsets :
       /\ AdoptIndex(idx_pos, NextIndex(idx_pos, offset)) \in Positions
       /\ Selected("nextStream", offset,
                   NextStream(idx_pos, idx, file, file_name, sd, offset))

\* selectStream(index)
SelectStreamIndex ==
  /\ life = "live"
  /\ \E i \in Indexes :
       Selected("selectStream(int)", i,
                SelectIndex(idx_pos, idx, file, file_name, sd, i))

\* selectStream(path)
SelectStreamPath ==
  /\ life = "live"
  /\ \E path \in CallerPaths :
       Selected("selectStream(path)", path,
                [idx_pos |-> idx_pos] @@ SelectPath(file, file_name, sd, path))

\* setFileFilter(filter)
SetFileFilter ==
  /\ life = "live"
  /\ \E filter \in Patterns :
       /\ file_name_pattern' = filter
       /\ last' = Call("setFileFilter", filter, "void", FALSE, FALSE)
  /\ UNCHANGED << config, is_sd_setup, start_path, idx, idx_pos, file, file_name,
                  sd, life, lastOk >>

\* setPath(p) handing the new root to the enumerator at once.
SetPathRebegins ==
  /\ life = "live"
  /\ \E p \in Roots :
       /\ start_path' = p
       /\ idx' = IF idx.begun THEN IdxBegin(p, exension, file_name_pattern) ELSE idx
       /\ last' = Call("setPath", p, "void", FALSE, FALSE)
  /\ UNCHANGED << config, is_sd_setup, file_name_pattern, idx_pos, file,
                  file_name, sd, life, lastOk >>

\* setPath(p)
SetPath ==
  /\ life = "live"
  /\ \E p \in Roots :
       /\ start_path' = p
       /\ last' = Call("setPath", p, "void", FALSE, FALSE)
  /\ UNCHANGED << config, is_sd_setup, file_name_pattern, idx, idx_pos, file,
                  file_name, sd, life, lastOk >>

\* isAutoNext()
IsAutoNext ==
  /\ life = "live"
  /\ last' = Call("isAutoNext", "void", isAutoNext, FALSE, FALSE)
  /\ UNCHANGED << config, is_sd_setup, start_path, file_name_pattern, idx,
                  idx_pos, file, file_name, sd, life, lastOk >>

Next ==
  \/ Begin
  \/ End
  \/ Destroy
  \/ Next_Stream
  \/ SelectStreamIndex
  \/ SelectStreamPath
  \/ SetFileFilter
  \/ SetPath
  \/ IsAutoNext

Spec == Init /\ [][Next]_vars

\* ----------------------------------------------------------------- claims

SelectOps == {"selectStream(int)", "selectStream(path)", "nextStream"}

IndexOps == {"selectStream(int)", "nextStream"}

\* The number of stream handles the session holds open.
OpenHandles == IF file = Closed THEN 0 ELSE 1

\* What a selection leaves behind and returns.
Outcome(pos, f, fname, ret) ==
  [idx_pos |-> pos, file |-> f, file_name |-> fname, ret |-> ret]

OutcomeOf(r) == Outcome(r.idx_pos, r.file, r.file_name, r.ret)

\* C1: at the end of every selectStream(int), selectStream(path) and
\* nextStream call, failing ones included, at most one stream handle is open,
\* the call made at most one open attempt, and the file object was closed
\* before that attempt: no open ever found the previous handle still open.
C1_SingleHandle ==
  last.op \in SelectOps =>
    /\ OpenHandles <= 1
    /\ last.closes
    /\ last.opens <= 1
    /\ ~last.openWhileOpen

\* A selection that replaced an open handle by a newly opened one.
C1_Witness ==
  last.op \in SelectOps /\ last.hadOpen /\ last.opens = 1 /\ last.opened

\* C2 (as claimed): selectStream(path) with a non-null path whose open fails
\* returns no stream (null), with the handle closed and one open attempt.
C2_OpenFailureReturnsNull ==
  (last.op = "selectStream(path)" /\ last.opens = 1 /\ ~last.opened) =>
    /\ last.ret = NULL
    /\ file = Closed
    /\ last.opens = 1

\* C3 (as claimed): toStr() is the path of the most recent call whose open
\* succeeded, the empty string if none has.
C3_NameIsLastSuccess == toStr = lastOk

\* C4 (as claimed): after end() no stream handle is open and the source is
\* unmounted.
C4_EndClosesStream ==
  last.op = "end" => (file = Closed /\ ~is_sd_setup)

\* C5: after selectStream(int) or nextStream has resolved to a position at or
\* beyond the number of matching files, the call has returned null, attempted
\* no open, and the file object is closed.
C5_NotFound ==
  (last.op \in IndexOps /\ idx_pos >= size) =>
    /\ last.ret = NULL
    /\ last.opens = 0
    /\ last.closes
    /\ file = Closed

\* nextStream() with the default offset from the last file, a handle open
\* before the call.
C5_Witness ==
  /\ last.op = "nextStream" /\ last.arg = 1
  /\ size > 0 /\ idx_pos = size
  /\ last.hadOpen /\ file = Closed /\ last.ret = NULL

\* C6: selectStream(i) with i >= 0 makes i the position, whatever comes of the
\* selection; with i < 0 it keeps the position and does what
\* selectStream(idx[idx_pos]) does for the position kept.
C6_SelectIndexPosition ==
  [][last'.op = "selectStream(int)" =>
       /\ last'.arg >= 0 => idx_pos' = last'.arg
       /\ last'.arg < 0 =>
            Outcome(idx_pos', file', file_name', last'.ret)
              = OutcomeOf([idx_pos |-> idx_pos]
                          @@ SelectPath(file, file_name, sd, IdxAt(idx, sd, idx_pos)))]_vars

\* selectStream(-1) at a position other than 0, the file there reselected.
C6_Witness ==
  /\ last.op = "selectStream(int)" /\ last.arg = -1
  /\ idx_pos > 0 /\ last.hadOpen /\ last.opened

C8_MountFailure ==
  [][last'.op = "begin" =>
       /\ last'.ret = "failed" =>
            /\ ~is_sd_setup /\ ~is_sd_setup'
            /\ idx' = idx /\ idx_pos' = idx_pos
            /\ file' = file /\ last'.opens = 0
       /\ ~is_sd_setup => (last'.mounts \/ last'.ret = "crashed")]_vars

\* A begin() that failed to mount.
C8_Witness ==
  last.op = "begin" /\ last.ret = "failed" /\ last.mounts /\ ~is_sd_setup

\* C9 (as claimed): a begin() that runs to its end leaves the storage set up,
\* no file selected, position 0 and the enumerator begun with the configured
\* root, extension and pattern, and has mounted iff the storage was not set up.
C9_BeginResets ==
  (last.op = "begin" /\ last.ret = "done") =>
    /\ is_sd_setup
    /\ file = Closed
    /\ idx_pos = 0
    /\ idx = IdxBegin(start_path, exension, file_name_pattern)
    /\ last.mounts = ~last.arg

\* C10: a session constructed on a mounted filesystem (p_cfg null) never calls
\* sd.end(); a session constructed with a storage configuration calls sd.end()
\* in every end(), the destructor's included, that finds the storage set up.
C10_MountOwnership ==
  /\ p_cfg = NULL => ~last.unmounts
  /\ (last.op \in {"end", "destroy"} /\ p_cfg # NULL /\ last.arg) =>
       (last.unmounts /\ ~sd)

\* end() of a session on a caller's filesystem: the volume stays mounted.
C10_Witness ==
  last.op = "end" /\ p_cfg = NULL /\ last.arg /\ ~last.unmounts /\ sd

\* C11 (as claimed): selectStream(path) with a null or an empty path returns
\* no stream, attempts no open, leaves the recorded name as it was, and has
\* closed the file object.
C11_RejectsNullAndEmpty ==
  [][(last'.op = "selectStream(path)" /\ last'.arg \in {NULL, ""}) =>
       /\ last'.ret = NULL
       /\ last'.opens = 0
       /\ file_name' = file_name
       /\ last'.closes /\ file' = Closed]_vars

SetterOps == {"setPath", "setFileFilter"}

\* What the enumerator answers for the positions the model follows.
Answers(ix, mounted) == [pos \in 0 .. MaxPos |-> IdxAt(ix, mounted, pos)]

\* C12 (as claimed): once the enumerator is begun, its next query answers for
\* the root and pattern set last, with no begin() in between.
C12_SettersReachNextQuery ==
  idx.begun =>
    Answers(idx, sd)
      = Answers(IdxBegin(start_path, exension, file_name_pattern), sd)

\* C12 (amended): setPath and setFileFilter store the new root or pattern and
\* nothing else: the enumerator, its answers, the position, the file object,
\* the recorded name and the mount state stay as they were; the enumerator
\* takes the root and pattern set last in the next begin() that runs to its
\* end.
C12_SettersTakeEffectAtBegin ==
  [][/\ last'.op \in SetterOps =>
          /\ idx' = idx /\ Answers(idx', sd') = Answers(idx, sd)
          /\ idx_pos' = idx_pos /\ file' = file /\ file_name' = file_name
          /\ is_sd_setup' = is_sd_setup /\ sd' = sd
          /\ last'.opens = 0 /\ ~last'.closes
     /\ last'.op = "setPath" => start_path' = last'.arg
     /\ last'.op = "setFileFilter" => file_name_pattern' = last'.arg
     /\ (last'.op = "begin" /\ last'.ret = "done") =>
          idx' = IdxBegin(start_path, exension, file_name_pattern)]_vars

\* setPath after begin(), a file selected: the enumerator still walks the old
\* root.
C12_Witness ==
  /\ last.op = "setPath" /\ idx.begun /\ sd
  /\ idx.start_dir # start_path /\ file # Closed
  /\ Answers(idx, sd) # Answers(IdxBegin(start_path, exension, file_name_pattern), sd)

\* C13 (as claimed): an open stream handle implies the storage is set up, and
\* no selectStream(int) or nextStream call made while it is not set up opens
\* a handle.
C13_OpenImpliesMounted ==
  /\ file # Closed => is_sd_setup
  /\ (last.op \in IndexOps /\ ~is_sd_setup) => ~last.opened

\* C14: every isAutoNext() call returns true.
C14_AutoNextAlways ==
  last.op = "isAutoNext" => last.ret = TRUE

\* isAutoNext() asked of an unmounted source at a position past the start.
C14_Witness ==
  last.op = "isAutoNext" /\ last.ret = TRUE /\ ~is_sd_setup /\ idx_pos > 0

\* C15: the position is an int that is not negative, and so is what index()
\* reports.
C15_PositionNonNegative ==
  /\ idx_pos >= 0 /\ idx_pos <= INT_MAX
  /\ index >= 0

\* nextStream with the largest offset from a position past the start: the
\* sum does not fit an int and the position is kept.
C15_Witness ==
  last.op = "nextStream" /\ last.arg = INT_MAX /\ idx_pos > 0 /\ idx_pos <= MaxPos

\* C16 (as claimed): a session without storage configuration (p_cfg null)
\* never takes the mount branch of begin().
C16_NoMountWithoutConfig ==
  (p_cfg = NULL /\ last.op = "begin") =>
    (~last.mounts /\ last.ret # "crashed")

\* C17: end(), the destructor's included, called with the storage not set up
\* calls no sd.end() and changes nothing (the destructor goes on to release
\* the object); sd.end() is called only with the storage set up and mounted
\* and leaves it neither; and the storage becomes set up again only in a
\* begin() that mounts.
C17_EndIdempotent ==
  /\ [](is_sd_setup /\ is_close_sd => sd)
  /\ [][/\ (last'.op = "end" /\ ~is_sd_setup) =>
             /\ ~last'.unmounts
             /\ UNCHANGED << p_cfg, owns_cfg, is_sd_setup, is_close_sd,
                             start_path, exension, file_name_pattern, idx,
                             idx_pos, file, file_name, sd, life, lastOk >>
        /\ (last'.op = "destroy" /\ ~is_sd_setup) =>
             /\ ~last'.unmounts
             /\ UNCHANGED << is_sd_setup, idx, idx_pos, file, file_name, sd >>
        /\ (last'.op \in {"end", "destroy"} /\ last'.unmounts) =>
             (is_sd_setup /\ sd /\ ~is_sd_setup' /\ ~sd')
        /\ (last'.op \notin {"end", "destroy"}) => ~last'.unmounts
        /\ (~is_sd_setup /\ is_sd_setup') =>
             (last'.op = "begin" /\ last'.mounts)]_vars

\* A second end() of a session that had mounted the storage itself.
C17_Witness ==
  /\ last.op = "end" /\ ~last.arg /\ ~last.unmounts
  /\ idx.begun /\ p_cfg = "cfg" /\ ~sd

====
